---- MODULE Spec2Model ----
(***************************************************************************)
(* find-symlinks: a parallel directory walk that collects every symlink    *)
(* under the working directory, followed by a parallel resolution phase    *)
(* that keeps the symlinks resolving to a given target (src/src/main.rs).  *)
(*                                                                         *)
(* Strings are modelled as sequences of tokens, so that the prefix tests   *)
(* of the code (a leading '.', a leading '!') are computed, not assumed:   *)
(* ".cfg" is <<".", "cfg">>, "!a" is <<"!", "a">>, "a" is <<"a">>.        *)
(* A path is a sequence of such names.                                     *)
(***************************************************************************)
EXTENDS Integers, Sequences, FiniteSets, TLC

(* ------------------------------ bounds -------------------------------- *)

\* Traversal threads of the parallel walker (opts.threads).
NumWalkers == 2

\* Threads of the rayon pool that runs the resolution phase.
NumResolvers == 2

Walkers == 1..NumWalkers
Resolvers == 1..NumResolvers

\* Option values: None is the empty sequence, Some(x) is <<x>>.
None == <<>>
Some(x) == <<x>>

\* The parent of the root.
NoNode == "none"

(* --------------------------- the fixture tree ------------------------- *)
(* A regular file real with two symlinks to it, a/link1 and .cfg/link3     *)
(* (the second inside a hidden directory; the name of the first ends in a  *)
(* byte that is not valid UTF-8, written as the token "0xFF"); a hard link *)
(* of real, named                                                          *)
(* hard, with a symlink link2 to it; inside the heavy directory            *)
(* node_modules a dangling symlink link4 and a symlink loop that points    *)
(* back at the root, which closes a cycle.                                 *)

NodeIds == {"root", "real", "hard", "a", "link1", "link2",
            "cfg", "link3", "nm", "link4", "loop"}

Dir(p, n) == [parent |-> p, name |-> n, kind |-> "dir", ino |-> 0, link |-> NoNode]
File(p, n, i) == [parent |-> p, name |-> n, kind |-> "file", ino |-> i, link |-> NoNode]
Symlink(p, n, t) == [parent |-> p, name |-> n, kind |-> "symlink", ino |-> 0, link |-> t]

\* link is the node a symlink points at, or "missing" for a dangling link.
Tree ==
  [n \in NodeIds |->
     CASE n = "root"  -> Dir(NoNode, <<".">>)
       [] n = "real"  -> File("root", <<"real">>, 1)
       [] n = "hard"  -> File("root", <<"hard">>, 1)
       [] n = "a"     -> Dir("root", <<"a">>)
       [] n = "link1" -> Symlink("a", <<"link1", "0xFF">>, "real")
       [] n = "link2" -> Symlink("root", <<"link2">>, "hard")
       [] n = "cfg"   -> Dir("root", <<".", "cfg">>)
       [] n = "link3" -> Symlink("cfg", <<"link3">>, "real")
       [] n = "nm"    -> Dir("root", <<"node_modules">>)
       [] n = "link4" -> Symlink("nm", <<"link4">>, "missing")
       [] n = "loop"  -> Symlink("nm", <<"loop">>, "root")]

\* Inode numbers: a file's own, and one per directory, distinct from them.
InoOf(n) ==
  CASE Tree[n].kind = "file" -> Tree[n].ino
    [] n = "root" -> 10 [] n = "a" -> 11 [] n = "cfg" -> 12 [] n = "nm" -> 13
    [] OTHER -> 20

Children(n) == {c \in NodeIds : Tree[c].parent = n}

RECURSIVE RelPath(_)
\* The path the walker reports for a node: "." joined with the names below it.
RelPath(n) == IF Tree[n].parent = NoNode THEN <<Tree[n].name>>
              ELSE Append(RelPath(Tree[n].parent), Tree[n].name)

\* DirEntry::depth: the root is at depth 0, its children at depth 1.
Depth(n) == Len(RelPath(n)) - 1

\* The working directory as an absolute path.
Cwd == <<<<"/">>, <<"tmp">>, <<"t">>>>

\* The absolute, symlink-free path of a node that is not reached through a link.
AbsPath(n) == Cwd \o Tail(RelPath(n))

\* The node a relative or absolute path names, or "missing".
NodeOf(p) ==
  IF \E n \in NodeIds : RelPath(n) = p \/ AbsPath(n) = p
  THEN CHOOSE n \in NodeIds : RelPath(n) = p \/ AbsPath(n) = p
  ELSE "missing"

RECURSIVE Follow(_, _)
\* Follows the symlink chain from node n; "missing" for a dangling link or
\* when the chain is longer than the kernel allows (ELOOP).
Follow(n, fuel) ==
  IF n = "missing" \/ fuel = 0 THEN "missing"
  ELSE IF Tree[n].kind = "symlink" THEN Follow(Tree[n].link, fuel - 1)
  ELSE n

\* A chain that visits more links than the tree has nodes is a cycle, which
\* the kernel reports as an error (ELOOP).
MaxSymlinks == Cardinality(NodeIds)

\* fs::canonicalize: Ok(absolute path of the final node) or Err.
canonicalize(p) ==
  LET n == Follow(NodeOf(p), MaxSymlinks)
  IN IF n = "missing" THEN [ok |-> FALSE, path |-> <<>>]
     ELSE [ok |-> TRUE, path |-> AbsPath(n)]

\* fs::metadata: follows symlinks; Ok(dev, ino of the final node) or Err.
\* The whole fixture lives on one device.
metadata(p) ==
  LET n == Follow(NodeOf(p), MaxSymlinks)
  IN IF n = "missing" THEN [ok |-> FALSE, dev |-> 0, ino |-> 0]
     ELSE [ok |-> TRUE, dev |-> 1, ino |-> InoOf(n)]

\* A plausible slip: a path that does not resolve is used as given.
realpath_lenient(p) ==
  LET rp == canonicalize(p) IN IF rp.ok THEN rp ELSE [ok |-> TRUE, path |-> p]

\* realpath (main.rs:61): canonicalize, with context added to the error.
realpath(p) == canonicalize(p)

(* ------------------------------ options ------------------------------- *)

\* The largest --max-depth value tried.
MaxDepthArg == 1

\* The values tried for the positional target argument: the regular file
\* real, and a path that does not exist.
TargetArgs == {AbsPath("real"), Cwd \o <<<<"other">>>>}

\* The values tried for the repeatable --ignore option: none, a glob naming
\* directory a, the same negated, and a negated glob naming the heavy
\* directory.
IgnoreLists == {<<>>, <<<<"a">>>>, <<<<"!", "a">>>>, <<<<"!", "node_modules">>>>}

\* Opts (main.rs:17): the fields the traversal and the resolution read.
\* hidden is true unless --hidden is given (ArgAction::SetFalse).
\* The runs tried enter the heavy directory only while hidden entries are
\* left out, so that no run meets more than four symlinks; --no-stream is
\* not combined with --json, which disables streaming by itself, and
\* --no-tui is given in streaming runs only, the ones in which the progress
\* bar prints.
OptsSet ==
  {o \in [target : TargetArgs, hidden : BOOLEAN,
          max_depth : {None} \cup {Some(d) : d \in 0..MaxDepthArg},
          json : BOOLEAN, ignores : IgnoreLists, include_heavy : BOOLEAN,
          no_stream : BOOLEAN, no_tui : BOOLEAN] :
     /\ o.include_heavy => o.hidden
     /\ o.json => ~o.no_stream
     /\ o.no_tui => ~o.json /\ ~o.no_stream}

(* --------------------------- filter policy ---------------------------- *)

\* str::starts_with for a one-character prefix.
starts_with(s, c) == Len(s) > 0 /\ s[1] = c

HEAVY_DIRS ==
  {<<"node_modules">>, <<".", "cache">>, <<"target">>, <<"build">>, <<"dist">>,
   <<"out">>, <<".", "git">>, <<".", "venv">>, <<"venv">>}

\* A plausible slip: the deny-list test applied to files (is_file for is_dir).
filter_entry_files_only(o, n) ==
  IF ~o.include_heavy
  THEN IF Tree[n].kind = "file" THEN Tree[n].name \notin HEAVY_DIRS ELSE TRUE
  ELSE TRUE

\* The filter_entry closure (main.rs:111): FALSE prunes the entry.
filter_entry(o, n) ==
  IF ~o.include_heavy
  THEN IF Tree[n].kind = "dir" THEN Tree[n].name \notin HEAVY_DIRS ELSE TRUE
  ELSE TRUE

\* The pattern handed to OverrideBuilder::add for a user glob (main.rs:128).
OverridePattern(g) == IF starts_with(g, "!") THEN g ELSE <<"!">> \o g

\* The patterns of the override matcher built from --ignore (main.rs:123-131).
Overrides(o) == [i \in 1..Len(o.ignores) |-> OverridePattern(o.ignores[i])]

\* A gitignore-style glob without a slash matches an entry by its file name,
\* at any depth; "*" matches every name.
GlobMatches(glob, name) == glob = <<"*">> \/ glob = name

\* Override::matched: the last pattern that matches decides; a pattern with
\* a leading '!' is an ignore glob, any other a whitelist glob; a file that
\* matches nothing is ignored when there is a whitelist glob.
OverrideMatched(ov, n) ==
  LET glob(i) == IF starts_with(ov[i], "!") THEN Tail(ov[i]) ELSE ov[i]
      hits == {i \in 1..Len(ov) : GlobMatches(glob(i), Tree[n].name)}
      last == CHOOSE i \in hits : \A j \in hits : j <= i
  IN IF hits # {}
     THEN IF starts_with(ov[last], "!") THEN "ignore" ELSE "whitelist"
     ELSE IF (\E i \in 1..Len(ov) : ~starts_with(ov[i], "!")) /\ Tree[n].kind # "dir"
          THEN "ignore" ELSE "none"

\* The walker's ignore decision for one entry, as configured at main.rs:87-93
\* and 122-132: overrides first, then WalkBuilder::hidden(yes), which skips
\* the entries whose name starts with '.' when yes is true.
should_skip_entry(o, n) ==
  LET m == OverrideMatched(Overrides(o), n)
  IN IF m # "none" THEN m = "ignore"
     ELSE o.hidden /\ starts_with(Tree[n].name, ".")

\* A plausible slip: the depth test off by one.
DescendAllowed_inclusive(o, n) == o.max_depth = None \/ Depth(n) <= o.max_depth[1]

\* WalkBuilder::max_depth (main.rs:133): a directory at the maximum depth is
\* reported but not descended into.
DescendAllowed(o, n) == o.max_depth = None \/ Depth(n) < o.max_depth[1]

\* The environments tried: every directory can be read, or directory a
\* fails to open (no read permission).
UnreadableSets == {{}, {"a"}}

VARIABLE unreadable   \* the directories that fail to open

\* A plausible slip: the walker is built with follow_links(true).
follow_links_on == TRUE

\* WalkBuilder::follow_links(false) (main.rs:89).
follow_links == FALSE

\* A plausible slip: an entry is always reported with the type of what it
\* points at.
file_type_followed(n) ==
  LET t == Follow(n, MaxSymlinks) IN IF t = "missing" THEN "error" ELSE Tree[t].kind

\* DirEntry::file_type: the type of the entry itself, a symlink being
\* reported as a symlink, unless the walker follows links.
file_type(n) == IF follow_links THEN file_type_followed(n) ELSE Tree[n].kind

\* fs::read_dir as the walker calls it: Ok(the entries of the directory the
\* path n leads to, through any symlink) or Err.
read_dir(n) ==
  LET d == Follow(n, MaxSymlinks)
  IN IF d = "missing" \/ d \in unreadable THEN [ok |-> FALSE, children |-> {}]
     ELSE [ok |-> TRUE, children |-> Children(d)]

\* The children of directory n the walker hands to its workers: none when
\* the directory cannot be read or is at the maximum depth.
generate_work(o, n) ==
  IF file_type(n) = "dir" /\ DescendAllowed(o, n) /\ read_dir(n).ok
  THEN {c \in read_dir(n).children : ~should_skip_entry(o, c) /\ filter_entry(o, c)}
  ELSE {}

(* ------------------------- ordering of paths -------------------------- *)

\* The tokens of the fixture's names in byte order ('.' and '/' sort before
\* the letters, the byte 0xFF after them).
TokenOrder ==
  <<".", "/", "No matches found.", "a", "cfg", "hard", "link1", "link2",
    "link3", "link4", "loop", "node_modules", "other", "real", "t", "tmp", "0xFF">>

Rank(t) == CHOOSE i \in 1..Len(TokenOrder) : TokenOrder[i] = t

RECURSIVE NameLess(_, _)
\* Byte-wise order of two names.
NameLess(x, y) ==
  IF x = <<>> THEN y # <<>>
  ELSE IF y = <<>> THEN FALSE
  ELSE IF Head(x) # Head(y) THEN Rank(Head(x)) < Rank(Head(y))
  ELSE NameLess(Tail(x), Tail(y))

RECURSIVE PathLess(_, _)
\* Ord for PathBuf: component by component.
PathLess(p, q) ==
  IF p = <<>> THEN q # <<>>
  ELSE IF q = <<>> THEN FALSE
  ELSE IF Head(p) # Head(q) THEN NameLess(Head(p), Head(q))
  ELSE PathLess(Tail(p), Tail(q))

RECURSIVE Insert(_, _)
Insert(v, p) ==
  IF v = <<>> THEN <<p>>
  ELSE IF PathLess(p, Head(v)) THEN <<p>> \o v
  ELSE <<Head(v)>> \o Insert(Tail(v), p)

RECURSIVE SortedCopy(_)
SortedCopy(v) == IF v = <<>> THEN <<>> ELSE Insert(SortedCopy(Tail(v)), Head(v))

\* A plausible slip: the clone is reported as collected.
sort_skipped(v) == v

\* matches.sort() (main.rs:222): the paths of v in ascending order.
sort(v) == SortedCopy(v)

(* ------------------------------- state -------------------------------- *)

VARIABLES
  opts,            \* the parsed command line
  unix,            \* whether the build has the cfg(unix) fast path
  stderr_tty,      \* whether stderr is a terminal (the progress bars' draw target)
  pc,              \* where main is: start, walk, resolve, report, done, failed
  target,          \* target_resolved: the canonical target (empty before it is set)
  stack,           \* the walker's pending work: entries not yet visited
  wpc, wcur,       \* each traversal thread: idle, visit or unlock, and its entry
  entries_lock,    \* the thread holding the Entry Buffer's mutex, or 0
  matches_lock,    \* the thread holding the Match Set's mutex, or 0
  file_count, dir_count,
  entries,         \* the Entry Buffer filled by the walk (main.rs:148)
  candidates,      \* the clone of the Entry Buffer taken at main.rs:170
  total,
  target_meta,     \* fs::metadata(target).ok()
  matches_out,     \* the Match Set (main.rs:174)
  streamed_count,
  claimed,         \* the indices of candidates a resolution thread has taken
  rpc, rcur,       \* each resolution thread: its step and its candidate index
  pos,             \* Some(the position of resolve_pb), or None while no bar exists
  out,             \* the streamed lines that reach the user: <<>> is the blank
                   \* line, else a path
  matches,         \* the sorted clone of the Match Set (main.rs:221)
  box              \* Some(the lines of the final box), or None when it is not printed

vars == <<opts, unix, stderr_tty, unreadable, pc, target, stack, wpc, wcur, entries_lock,
          matches_lock, file_count, dir_count, entries, candidates, total, target_meta, matches_out, streamed_count,
          claimed, rpc, rcur, pos, out, matches, box>>

walkVars == <<stack, wpc, wcur, entries_lock, file_count, dir_count, entries>>
resVars == <<matches_out, matches_lock, streamed_count, claimed, rpc, rcur, pos, out>>

Init ==
  /\ opts \in OptsSet
  /\ unix \in BOOLEAN
  /\ stderr_tty \in BOOLEAN
  /\ unreadable \in UnreadableSets
  /\ (opts.no_tui \/ opts.json \/ opts.no_stream) => stderr_tty
  /\ opts.ignores # <<>> => unix
  /\ opts.include_heavy => unreadable = {"a"}
  /\ pc = "start"
  /\ target = None
  /\ stack = {}
  /\ wpc = [w \in Walkers |-> "idle"]
  /\ wcur = [w \in Walkers |-> NoNode]
  /\ entries_lock = 0
  /\ matches_lock = 0
  /\ file_count = 0
  /\ dir_count = 0
  /\ entries = <<>>
  /\ candidates = <<>>
  /\ total = 0
  /\ target_meta = [ok |-> FALSE, dev |-> 0, ino |-> 0]
  /\ matches_out = <<>>
  /\ streamed_count = 0
  /\ claimed = {}
  /\ rpc = [r \in Resolvers |-> "idle"]
  /\ rcur = [r \in Resolvers |-> 0]
  /\ pos = None
  /\ out = <<>>
  /\ matches = <<>>
  /\ box = None

(* ------------------------------ startup ------------------------------- *)

\* main.rs:80-82: the target is canonicalized; a failure ends the run.
ResolveTarget ==
  /\ pc = "start"
  /\ LET rp == realpath(opts.target)
     IN IF rp.ok
        THEN /\ target' = rp.path
             /\ stack' = {"root"}
             /\ pc' = "walk"
        ELSE /\ pc' = "failed"
             /\ UNCHANGED <<target, stack>>
  /\ UNCHANGED <<opts, unix, stderr_tty, unreadable, wpc, wcur, entries_lock, file_count,
                 dir_count, entries, candidates, total, target_meta, matches, box>>
  /\ UNCHANGED resVars

(* ----------------------------- traversal ------------------------------ *)

\* A plausible slip: store in place of fetch_add.
store_one(c) == 1

\* AtomicUsize::fetch_add(1, Relaxed): the value after the increment.
fetch_add(c) == c + 1

\* A traversal thread takes a pending entry.
WalkPop(w) ==
  /\ wpc[w] = "idle"
  /\ \E n \in stack :
       /\ stack' = stack \ {n}
       /\ wcur' = [wcur EXCEPT ![w] = n]
  /\ wpc' = [wpc EXCEPT ![w] = "visit"]
  /\ UNCHANGED <<opts, unix, stderr_tty, unreadable, pc, target, entries_lock, file_count,
                 dir_count, entries, candidates, total, target_meta, matches, box>>
  /\ UNCHANGED resVars

\* A plausible slip: the closure stops the walk when it is handed an error.
visit_result_quit_on_error(ok) == IF ok THEN "Continue" ELSE "Quit"

\* The WalkState the visitor closure returns (main.rs:164), for an entry
\* (ok) and for an error.
visit_result(ok) == "Continue"

\* The visitor closure (main.rs:154-165) runs on the entry, then the walker
\* queues the children of a directory that pass the filters. A directory
\* that cannot be read is handed to the closure as an entry and then as an
\* error; WalkState::Quit drops everything pending. For a symlink the
\* closure waits for the Entry Buffer's mutex and appends under it
\* (main.rs:160); the guard is still alive after this step.
WalkVisit(w) ==
  /\ wpc[w] = "visit"
  /\ LET n == wcur[w]
         ft == file_type(n)
         state == IF ft = "dir" /\ ~read_dir(n).ok
                  THEN visit_result(FALSE) ELSE visit_result(TRUE)
     IN /\ ft = "symlink" => entries_lock = 0
        /\ dir_count' = IF ft = "dir" THEN fetch_add(dir_count) ELSE dir_count
        /\ file_count' = IF ft = "file" THEN fetch_add(file_count) ELSE file_count
        /\ entries' = IF ft = "symlink" THEN Append(entries, RelPath(n)) ELSE entries
        /\ entries_lock' = IF ft = "symlink" THEN w ELSE entries_lock
        /\ stack' = IF state = "Quit" THEN {} ELSE stack \cup generate_work(opts, n)
        /\ wpc' = [wpc EXCEPT ![w] = IF ft = "symlink" THEN "unlock" ELSE "idle"]
        /\ wcur' = [wcur EXCEPT ![w] = IF ft = "symlink" THEN n ELSE NoNode]
  /\ UNCHANGED <<opts, unix, stderr_tty, unreadable, pc, target, candidates, total, target_meta,
                 matches, box>>
  /\ UNCHANGED resVars

\* The if-let block of main.rs:160 ends: the guard is dropped, and the
\* closure returns.
WalkUnlock(w) ==
  /\ wpc[w] = "unlock"
  /\ entries_lock' = 0
  /\ wpc' = [wpc EXCEPT ![w] = "idle"]
  /\ wcur' = [wcur EXCEPT ![w] = NoNode]
  /\ UNCHANGED <<opts, unix, stderr_tty, unreadable, pc, target, stack, file_count, dir_count,
                 entries, candidates, total, target_meta, matches, box>>
  /\ UNCHANGED resVars

\* A plausible slip: the walk is taken as finished once nothing is pending,
\* while a thread is still visiting an entry.
WalkDrained == stack = {}

\* WalkParallel::run returns (main.rs:150-166) when nothing is pending and
\* every traversal thread has stopped.
WalkFinished == stack = {} /\ \A w \in Walkers : wpc[w] = "idle"

\* main.rs:168-189: the Entry Buffer is cloned and the resolution state set
\* up; the progress bar resolve_pb is created, at position 0, unless
\* --no-tui is given.
WalkJoin ==
  /\ pc = "walk"
  /\ WalkFinished
  /\ candidates' = entries
  /\ total' = Len(entries)
  /\ target_meta' = metadata(target)
  /\ pos' = IF opts.no_tui THEN None ELSE Some(0)
  /\ pc' = "resolve"
  /\ UNCHANGED <<opts, unix, stderr_tty, unreadable, target, matches, box>>
  /\ UNCHANGED walkVars
  /\ UNCHANGED <<matches_out, matches_lock, streamed_count, claimed, rpc, rcur, out>>

(* ----------------------------- resolution ----------------------------- *)

\* main.rs:192.
streaming_allowed == ~opts.json /\ ~opts.no_stream

\* A plausible slip: map_or(true, ...), a path that fails to resolve passes.
SlowMatch_error_matches(p, tgt) ==
  LET rp == realpath(p) IN IF rp.ok THEN rp.path = tgt ELSE TRUE

\* The canonical-path comparison (main.rs:200, 202); a path that fails to
\* resolve counts as no.
SlowMatch(p, tgt) ==
  LET rp == realpath(p) IN IF rp.ok THEN rp.path = tgt ELSE FALSE

\* The device+inode comparison (main.rs:199); a metadata error counts as no.
FastMatch(p, tm) ==
  LET m == metadata(p) IN IF m.ok THEN m.dev = tm.dev /\ m.ino = tm.ino ELSE FALSE

\* is_match (main.rs:194-203): with target metadata on a unix build, the
\* device+inode comparison decides a yes and the canonical comparison is the
\* fallback; otherwise the canonical comparison alone.
is_match(p, tm, tgt, isUnix) ==
  IF isUnix /\ tm.ok
  THEN IF FastMatch(p, tm) THEN TRUE ELSE SlowMatch(p, tgt)
  ELSE SlowMatch(p, tgt)

\* A plausible slip: the match is announced before it is appended.
next_step_announce_first(cur, streaming, first) ==
  CASE cur = "check" -> IF streaming THEN "count" ELSE "push"
    [] cur = "count" -> IF first THEN "blank" ELSE "announce"
    [] cur = "blank" -> "announce"
    [] cur = "announce" -> "push"
    [] cur = "push" -> "unlock"
    [] cur = "unlock" -> "inc"

\* A plausible slip: the guard is bound outside the if-let block and lives
\* to the end of the closure.
next_step_unlock_last(cur, streaming, first) ==
  CASE cur = "check" -> "push"
    [] cur = "push" -> IF streaming THEN "count" ELSE "unlock"
    [] cur = "count" -> IF first THEN "blank" ELSE "announce"
    [] cur = "blank" -> "announce"
    [] cur = "announce" -> "unlock"
    [] cur = "unlock" -> "inc"

\* The order of the steps taken for a matching candidate (main.rs:204-216):
\* append to the Match Set under its mutex, drop the guard, then, when
\* streaming, count, print the blank line if the count was 0, print the
\* path; inc is the statement after the block (main.rs:216).
next_step(cur, streaming, first) ==
  CASE cur = "check" -> "push"
    [] cur = "push" -> "unlock"
    [] cur = "unlock" -> IF streaming THEN "count" ELSE "inc"
    [] cur = "count" -> IF first THEN "blank" ELSE "announce"
    [] cur = "blank" -> "announce"
    [] cur = "announce" -> "inc"

\* main.rs:216, if let Some(pb) = &resolve_pb: with no progress bar the
\* closure is over as soon as the statement is reached.
after_block(step) == IF step = "inc" /\ pos = None THEN "idle" ELSE step

\* Thread r moves on to its next step; at the end of the closure it lets go
\* of its candidate.
Advance(r, step) ==
  /\ rpc' = [rpc EXCEPT ![r] = after_block(step)]
  /\ rcur' = IF after_block(step) = "idle" THEN [rcur EXCEPT ![r] = 0] ELSE rcur

\* ProgressBar::println: the line is written above the bar on stderr, and
\* nothing is written when the draw target is hidden, which it is when
\* stderr is not a terminal.
pb_println(o, line) == IF stderr_tty THEN Append(o, line) ELSE o

\* main.rs:210 and 213: the line goes through the progress bar when there
\* is one, and to stdout with println! otherwise.
stream_line(o, line) == IF pos # None THEN pb_println(o, line) ELSE Append(o, line)

\* A resolution thread takes a candidate no thread has taken and decides
\* is_match (main.rs:193-203); a non-match skips the block.
ResCheck(r) ==
  /\ pc = "resolve"
  /\ rpc[r] = "idle"
  /\ \E i \in (1..total) \ claimed :
       /\ claimed' = claimed \cup {i}
       /\ LET step == IF is_match(candidates[i], target_meta, target, unix)
                      THEN next_step("check", streaming_allowed, FALSE)
                      ELSE after_block("inc")
          IN /\ rpc' = [rpc EXCEPT ![r] = step]
             /\ rcur' = IF step = "idle" THEN rcur ELSE [rcur EXCEPT ![r] = i]
  /\ UNCHANGED <<opts, unix, stderr_tty, unreadable, pc, target, candidates, total, target_meta,
                 matches_out, matches_lock, streamed_count, pos, out, matches, box>>
  /\ UNCHANGED walkVars

\* A plausible slip: the resolved path is appended, not the candidate.
pushed_resolved(p) == canonicalize(p).path

\* main.rs:205: what is appended is a clone of the candidate path.
pushed_path(p) == p

\* main.rs:205: the thread waits for the Match Set's mutex and appends the
\* path under it; the guard is still alive after this step.
ResPush(r) ==
  /\ rpc[r] = "push"
  /\ matches_lock = 0
  /\ matches_lock' = r
  /\ matches_out' = Append(matches_out, pushed_path(candidates[rcur[r]]))
  /\ Advance(r, next_step("push", streaming_allowed, FALSE))
  /\ UNCHANGED <<opts, unix, stderr_tty, unreadable, pc, target, candidates, total, target_meta,
                 streamed_count, claimed, pos, out, matches, box>>
  /\ UNCHANGED walkVars

\* The if-let block of main.rs:205 ends: the guard is dropped.
ResUnlock(r) ==
  /\ rpc[r] = "unlock"
  /\ matches_lock' = 0
  /\ Advance(r, next_step("unlock", streaming_allowed, FALSE))
  /\ UNCHANGED <<opts, unix, stderr_tty, unreadable, pc, target, candidates, total, target_meta,
                 matches_out, streamed_count, claimed, pos, out, matches, box>>
  /\ UNCHANGED walkVars

\* main.rs:208-209: the streamed count is incremented; prev is its old value.
ResCount(r) ==
  /\ rpc[r] = "count"
  /\ LET prev == streamed_count
     IN /\ streamed_count' = fetch_add(streamed_count)
        /\ Advance(r, next_step("count", streaming_allowed, prev = 0))
  /\ UNCHANGED <<opts, unix, stderr_tty, unreadable, pc, target, candidates, total, target_meta,
                 matches_out, matches_lock, claimed, pos, out, matches, box>>
  /\ UNCHANGED walkVars

\* main.rs:210: the leading blank line.
ResBlank(r) ==
  /\ rpc[r] = "blank"
  /\ out' = stream_line(out, <<>>)
  /\ Advance(r, next_step("blank", streaming_allowed, FALSE))
  /\ UNCHANGED <<opts, unix, stderr_tty, unreadable, pc, target, candidates, total, target_meta,
                 matches_out, matches_lock, streamed_count, claimed, pos, matches, box>>
  /\ UNCHANGED walkVars

\* main.rs:212-213: the match is printed.
ResAnnounce(r) ==
  /\ rpc[r] = "announce"
  /\ out' = stream_line(out, candidates[rcur[r]])
  /\ Advance(r, next_step("announce", streaming_allowed, FALSE))
  /\ UNCHANGED <<opts, unix, stderr_tty, unreadable, pc, target, candidates, total, target_meta,
                 matches_out, matches_lock, streamed_count, claimed, pos, matches, box>>
  /\ UNCHANGED walkVars

\* main.rs:216: pb.inc(1), the last statement of the closure.
ResInc(r) ==
  /\ rpc[r] = "inc"
  /\ pos' = Some(pos[1] + 1)
  /\ rpc' = [rpc EXCEPT ![r] = "idle"]
  /\ rcur' = [rcur EXCEPT ![r] = 0]
  /\ UNCHANGED <<opts, unix, stderr_tty, unreadable, pc, target, candidates, total, target_meta,
                 matches_out, matches_lock, streamed_count, claimed, out, matches, box>>
  /\ UNCHANGED walkVars

\* for_each returns once every candidate has been through the closure;
\* main.rs:219-222 then clones and sorts the Match Set.
ResolveJoin ==
  /\ pc = "resolve"
  /\ claimed = 1..total
  /\ \A r \in Resolvers : rpc[r] = "idle"
  /\ matches' = sort(matches_out)
  /\ pc' = "report"
  /\ UNCHANGED <<opts, unix, stderr_tty, unreadable, target, candidates, total, target_meta, box>>
  /\ UNCHANGED walkVars
  /\ UNCHANGED resVars

(* ------------------------------ reporting ----------------------------- *)

NoMatchesLine == << <<"No matches found.">> >>

\* Path::to_str: the path as UTF-8 text, or nothing when a name holds a byte
\* sequence that is not UTF-8.
to_str(p) ==
  IF \A i \in 1..Len(p) : \A j \in 1..Len(p[i]) : p[i][j] # "0xFF"
  THEN Some(p) ELSE None

\* serde_json::to_string_pretty on the sorted matches (main.rs:224): a path
\* is serialized through to_str, and one that has none is an error.
to_string_pretty(v) ==
  IF \A i \in 1..Len(v) : to_str(v[i]) # None
  THEN [ok |-> TRUE, text |-> v] ELSE [ok |-> FALSE, text |-> <<>>]

\* main.rs:227: the condition under which the final box is printed.
print_box_wanted(streamed_any) == ~streaming_allowed \/ ~streamed_any

\* main.rs:223-238: JSON prints the sorted matches, and main returns the
\* error if they cannot be serialized; otherwise the box is printed unless
\* matches were streamed.
Report ==
  /\ pc = "report"
  /\ LET streamed_any == streamed_count > 0
     IN box' = IF ~opts.json /\ print_box_wanted(streamed_any)
               THEN Some(IF matches = <<>> THEN <<NoMatchesLine>> ELSE matches)
               ELSE None
  /\ pc' = IF opts.json /\ ~to_string_pretty(matches).ok THEN "json_error" ELSE "done"
  /\ UNCHANGED <<opts, unix, stderr_tty, unreadable, target, candidates, total, target_meta, matches>>
  /\ UNCHANGED walkVars
  /\ UNCHANGED resVars

(* ---------------------------- specification --------------------------- *)

Next ==
  \/ ResolveTarget
  \/ \E w \in Walkers : WalkPop(w)
  \/ \E w \in Walkers : WalkVisit(w)
  \/ \E w \in Walkers : WalkUnlock(w)
  \/ WalkJoin
  \/ \E r \in Resolvers : ResCheck(r)
  \/ \E r \in Resolvers : ResPush(r)
  \/ \E r \in Resolvers : ResUnlock(r)
  \/ \E r \in Resolvers : ResCount(r)
  \/ \E r \in Resolvers : ResBlank(r)
  \/ \E r \in Resolvers : ResAnnounce(r)
  \/ \E r \in Resolvers : ResInc(r)
  \/ ResolveJoin
  \/ Report

Spec == Init /\ [][Next]_vars

\* The runs followed to their end: streamed output through the progress bar
\* on a terminal, on a Unix build, no depth limit and no user glob, for
\* every target and every choice of the hidden and heavy switches, in the
\* environments of Init.
LiveInit ==
  /\ Init
  /\ unix /\ stderr_tty /\ ~opts.no_tui
  /\ ~opts.json /\ ~opts.no_stream
  /\ opts.max_depth = None /\ opts.ignores = <<>>

\* The runs in which the threads keep being scheduled: a step that can be
\* taken is eventually taken.
LiveSpec == LiveInit /\ [][Next]_vars /\ WF_vars(Next)

(* --------------------------- shared notions --------------------------- *)

Range(v) == {v[i] : i \in 1..Len(v)}

Occurrences(v, x) == Cardinality({i \in 1..Len(v) : v[i] = x})

SymlinkNodes == {n \in NodeIds : Tree[n].kind = "symlink"}

RECURSIVE Ancestors(_)
\* The entries on the way from the root down to n, n included, the root not.
Ancestors(n) ==
  IF Tree[n].parent = NoNode THEN {} ELSE {n} \cup Ancestors(Tree[n].parent)

\* The symlink at n resolves, through every link, to the canonical target.
ResolvesToTarget(n) ==
  LET rp == canonicalize(RelPath(n)) IN rp.ok /\ rp.path = target

DepthExcludes(o, n) ==
  o.max_depth # None /\ \E m \in Ancestors(n) : Depth(m) > o.max_depth[1]

HeavyExcludes(o, n) ==
  ~o.include_heavy /\
  \E m \in Ancestors(n) : Tree[m].kind = "dir" /\ Tree[m].name \in HEAVY_DIRS

HiddenOnPath(n) == \E m \in Ancestors(n) : starts_with(Tree[m].name, ".")

\* A user glob, with or without a leading '!', names an entry on the path.
GlobOnPath(o, n) ==
  \E m \in Ancestors(n) : \E i \in 1..Len(o.ignores) :
     LET g == o.ignores[i]
     IN Tree[m].name = (IF starts_with(g, "!") THEN Tail(g) ELSE g)

\* Some rule of the filter policy, as the run configures it, excludes n or a
\* directory above it.
Excluded(o, n) ==
  \/ DepthExcludes(o, n)
  \/ HeavyExcludes(o, n)
  \/ o.hidden /\ HiddenOnPath(n)
  \/ GlobOnPath(o, n)

\* A directory above n fails to open, so the walk cannot list what holds n.
BelowUnreadable(n) == \E m \in Ancestors(n) \ {n} : m \in unreadable

RECURSIVE Reach(_, _)
Reach(o, S) ==
  LET S2 == S \cup UNION {generate_work(o, n) : n \in S}
  IN IF S2 = S THEN S ELSE Reach(o, S2)

\* What a single-threaded walk from the root visits.
RefVisited == Reach(opts, {"root"})

RefDirs == Cardinality({n \in RefVisited : Tree[n].kind = "dir"})
RefFiles == Cardinality({n \in RefVisited : Tree[n].kind = "file"})

\* The Match Set of a single-threaded run.
RefMatchSet ==
  {RelPath(n) : n \in {m \in RefVisited :
      /\ Tree[m].kind = "symlink"
      /\ is_match(RelPath(m), metadata(target), target, unix)}}

IsSorted(v) == \A i, j \in 1..Len(v) : i < j => PathLess(v[i], v[j])

Finished == pc \in {"report", "done", "json_error"}

(* ------------------------------- claims ------------------------------- *)

\* C1: when streaming is enabled, the blank "begin results" line is printed
\* at most once, every streamed match is preceded by it, and a finished run
\* with a match has printed it exactly once.
C1_BeginResultsBeforeAnyMatch ==
  streaming_allowed =>
    /\ Occurrences(out, <<>>) <= 1
    /\ \A i \in 1..Len(out) :
         out[i] # <<>> => \E j \in 1..(i - 1) : out[j] = <<>>
    /\ (Finished /\ matches_out # <<>>) => Occurrences(out, <<>>) = 1

\* C2: every path in the Match Set resolves, through every link, to the
\* canonical target.
C2_MatchSetSound ==
  \A p \in Range(matches_out) :
     LET rp == canonicalize(p) IN rp.ok /\ rp.path = target

\* C3, as stated: once the resolution phase is over, every symlink of the
\* tree that resolves to the target and that no rule of the filter policy
\* excludes is in the Match Set, and in its sorted clone, exactly once.
C3_Complete ==
  Finished =>
    \A n \in SymlinkNodes :
       (ResolvesToTarget(n) /\ ~Excluded(opts, n)) =>
          /\ Occurrences(matches_out, RelPath(n)) = 1
          /\ Occurrences(matches, RelPath(n)) = 1

\* C3, amended: the same for every such symlink that lies below no
\* directory that failed to open.
C3_CompleteWhereReadable ==
  Finished =>
    \A n \in SymlinkNodes :
       (ResolvesToTarget(n) /\ ~Excluded(opts, n) /\ ~BelowUnreadable(n)) =>
          /\ Occurrences(matches_out, RelPath(n)) = 1
          /\ Occurrences(matches, RelPath(n)) = 1

\* C3 witness: a finished run whose Match Set holds the symlink a/link1, two
\* levels below the root, next to another match.
C3_Witness ==
  /\ pc = "done"
  /\ ResolvesToTarget("link1") /\ ~Excluded(opts, "link1")
  /\ ~BelowUnreadable("link1")
  /\ Occurrences(matches, RelPath("link1")) = 1
  /\ Len(matches) >= 2

\* C4: a resolution thread holds or has taken a candidate only after main
\* has passed the walk, and from then on no traversal thread is visiting an
\* entry, nothing is pending, and the Entry Buffer equals the candidate list
\* that was cloned from it.
C4_Barrier ==
  /\ (claimed # {} \/ \E r \in Resolvers : rpc[r] # "idle")
        => pc \in {"resolve", "report", "done", "json_error"}
  /\ pc \in {"resolve", "report", "done", "json_error"} =>
        /\ stack = {}
        /\ \A w \in Walkers : wpc[w] = "idle"
        /\ candidates = entries
        /\ total = Len(entries)

\* C4 witness: a resolution thread is in the middle of a candidate, others
\* remain, and the walk found three symlinks.
C4_Witness ==
  /\ \E r \in Resolvers : rpc[r] = "push"
  /\ claimed # 1..total
  /\ Len(candidates) = 3

\* C5: with the hidden flag not given (opts.hidden true), a symlink below a
\* hidden directory that no other rule excludes is in the Entry Buffer of a
\* finished walk, and when it resolves to the target it is in the Match Set;
\* with the flag given it is not in the Entry Buffer.
C5_HiddenIncludedByDefault ==
  Finished =>
    \A n \in SymlinkNodes :
       (HiddenOnPath(n) /\ ~DepthExcludes(opts, n) /\ ~HeavyExcludes(opts, n)
          /\ ~GlobOnPath(opts, n)) =>
          IF opts.hidden
          THEN /\ RelPath(n) \in Range(entries)
               /\ ResolvesToTarget(n) => RelPath(n) \in Range(matches_out)
          ELSE RelPath(n) \notin Range(entries)

\* The verdict of the user globs on one entry, read as the claim reads them:
\* the last glob naming the entry decides, a glob without '!' ignores it and
\* a glob with '!' keeps it.
UserGlobIgnores(o, m) ==
  LET body(i) == IF starts_with(o.ignores[i], "!") THEN Tail(o.ignores[i])
                 ELSE o.ignores[i]
      hits == {i \in 1..Len(o.ignores) : GlobMatches(body(i), Tree[m].name)}
      last == CHOOSE i \in hits : \A j \in hits : j <= i
  IN hits # {} /\ ~starts_with(o.ignores[last], "!")

\* C6: for a symlink that depth, heavy-directory and hidden rules do not
\* exclude, a finished walk has it in the Entry Buffer unless a user glob
\* without a leading '!' ignores it or a directory above it; a glob with a
\* leading '!' never keeps it out.
C6_NegatedGlobKeeps ==
  Finished =>
    \A n \in SymlinkNodes :
       (~DepthExcludes(opts, n) /\ ~HeavyExcludes(opts, n)
          /\ ~(opts.hidden /\ HiddenOnPath(n))) =>
          (RelPath(n) \in Range(entries)
             <=> ~\E m \in Ancestors(n) : UserGlobIgnores(opts, m))

\* C7: on a unix build with target metadata, the device+inode comparison
\* and the canonical comparison give the same verdict on every candidate,
\* and the Match Set of a finished run is the set of candidates the
\* canonical comparison accepts.
C7_FastPathAgrees ==
  (unix /\ target_meta.ok) =>
    /\ \A p \in Range(candidates) :
         FastMatch(p, target_meta) <=> SlowMatch(p, target)
    /\ Finished =>
         Range(matches_out) = {p \in Range(candidates) : SlowMatch(p, target)}

\* C8: every path printed on the stream is already in the Match Set.
C8_AnnouncedAfterAppend ==
  \A i \in 1..Len(out) : out[i] # <<>> => out[i] \in Range(matches_out)

\* C8 witness: a match has been printed while another thread has appended
\* its own match and not printed it yet.
C8_Witness ==
  /\ \E i \in 1..Len(out) : out[i] # <<>>
  /\ \E r \in Resolvers : rpc[r] \in {"count", "blank", "announce"}
  /\ Len(matches_out) = 2

\* C9: after the resolution phase the two counters and the Match Set are
\* those of a single-threaded run: every directory and file visited is
\* counted once and every match is appended once.
C9_SameAsSingleThreaded ==
  Finished =>
    /\ dir_count = RefDirs
    /\ file_count = RefFiles
    /\ Range(matches_out) = RefMatchSet
    /\ Len(matches_out) = Cardinality(RefMatchSet)

\* C9 witness: a finished run that counted three directories and two files
\* and holds three matches.
C9_Witness ==
  /\ pc = "done"
  /\ dir_count = 3 /\ file_count = 2
  /\ Len(matches_out) = 3

\* C10: the reported sequence is in ascending path order without repeats
\* and lists exactly the matches of a single-threaded run, so it is the same
\* whatever order the resolution threads appended in.
C10_SortedAndDeterministic ==
  Finished =>
    /\ IsSorted(matches)
    /\ Range(matches) = RefMatchSet
    /\ Len(matches) = Cardinality(RefMatchSet)

\* C10 witness: a finished run whose threads appended two or more matches
\* in an order that is not the reported one.
C10_Witness ==
  /\ pc = "done"
  /\ Len(matches) >= 2
  /\ matches # matches_out

\* The directories of the deny-list and everything below them.
UnderHeavy ==
  {n \in NodeIds : \E m \in Ancestors(n) :
      Tree[m].kind = "dir" /\ Tree[m].name \in HEAVY_DIRS}

\* C11: without --include-heavy, whatever the user globs, a deny-listed
\* directory and everything below it is never pending, never visited and
\* never in the Entry Buffer; with --include-heavy a finished walk has a
\* symlink below such a directory in the Entry Buffer exactly when the other
\* rules, as the run configures them, do not exclude it and the directories
\* above it can be read.
C11_HeavyPruned ==
  /\ ~opts.include_heavy =>
        \A n \in UnderHeavy :
           /\ n \notin stack
           /\ \A w \in Walkers : wcur[w] # n
           /\ RelPath(n) \notin Range(entries)
  /\ (opts.include_heavy /\ Finished) =>
        \A n \in UnderHeavy \cap SymlinkNodes :
           RelPath(n) \in Range(entries)
              <=> (~Excluded(opts, n) /\ ~BelowUnreadable(n))

\* C11 witness: a finished walk without --include-heavy, given the negated
\* glob that names node_modules, which found the three symlinks outside it.
C11_Witness ==
  /\ pc = "done"
  /\ ~opts.include_heavy
  /\ opts.ignores = <<<<"!", "node_modules">>>>
  /\ Len(entries) = 3

\* A rule other than the depth limit, as the run configures them, excludes n.
ExcludedApartFromDepth(o, n) ==
  HeavyExcludes(o, n) \/ (o.hidden /\ HiddenOnPath(n)) \/ GlobOnPath(o, n)

\* C12 as stated: with --max-depth 0 a finished walk has enumerated the
\* symlinks directly under the root that no other rule excludes, and none
\* nested one level deeper.
C12_DepthZeroVisitsChildren ==
  (Finished /\ opts.max_depth = Some(0)) =>
    \A n \in SymlinkNodes :
       /\ (Depth(n) = 1 /\ ~ExcludedApartFromDepth(opts, n))
             => RelPath(n) \in Range(entries)
       /\ Depth(n) = 2 => RelPath(n) \notin Range(entries)

\* C12 amended: with --max-depth 0 only the root itself is visited, so a
\* finished walk has counted one directory, no file and no symlink; with
\* --max-depth d no symlink deeper than d is ever in the Entry Buffer, and
\* from d = 1 a finished walk has the symlinks directly under the root that
\* no other rule excludes, the root being readable.
C12_DepthBoundary ==
  /\ (Finished /\ opts.max_depth = Some(0)) =>
        entries = <<>> /\ dir_count = 1 /\ file_count = 0
  /\ opts.max_depth # None =>
        \A n \in SymlinkNodes :
           /\ Depth(n) > opts.max_depth[1] => RelPath(n) \notin Range(entries)
           /\ (Finished /\ Depth(n) = 1 /\ opts.max_depth[1] >= 1
                 /\ ~ExcludedApartFromDepth(opts, n) /\ ~BelowUnreadable(n))
                 => RelPath(n) \in Range(entries)

\* C12 witness: a finished walk with --max-depth 0, which visited the root
\* alone.
C12_Witness ==
  /\ pc = "done"
  /\ opts.max_depth = Some(0)
  /\ dir_count = 1
  /\ entries = <<>>

\* C13: when the target argument cannot be canonicalized, main never gets
\* past the start: nothing is pending or visited, both counters are 0, the
\* Entry Buffer and the Match Set are empty and no candidate is taken.
C13_FatalBeforeAnyWork ==
  ~canonicalize(opts.target).ok =>
    /\ pc \in {"start", "failed"}
    /\ stack = {}
    /\ \A w \in Walkers : wpc[w] = "idle"
    /\ dir_count = 0 /\ file_count = 0
    /\ entries = <<>> /\ matches_out = <<>>
    /\ claimed = {} /\ out = <<>>

\* C13 witness: the run has failed on a target that does not resolve.
C13_Witness == pc = "failed" /\ ~canonicalize(opts.target).ok

\* The entries a walk is expected to visit: those no filter rule excludes
\* and that no unreadable directory hides.
ExpectedVisited == {n \in NodeIds : ~Excluded(opts, n) /\ ~BelowUnreadable(n)}

\* The run is over, with a report or with the fatal error of startup.
Terminated == pc \in {"done", "failed", "json_error"}

\* C14: a directory that fails to open never fails the run; once the walk is
\* over the directory itself has been counted, nothing below it has been
\* visited, and every other entry that the filter rules let through has
\* been visited: the counters and the Entry Buffer hold exactly those; and
\* every run whose threads keep being scheduled comes to its end.
C14_UnreadableSkipped ==
  /\ [](/\ canonicalize(opts.target).ok => pc # "failed"
        /\ \A n \in NodeIds : BelowUnreadable(n) =>
              /\ n \notin stack
              /\ \A w \in Walkers : wcur[w] # n
              /\ RelPath(n) \notin Range(entries)
        /\ Finished =>
              /\ dir_count = Cardinality({n \in ExpectedVisited : Tree[n].kind = "dir"})
              /\ file_count = Cardinality({n \in ExpectedVisited : Tree[n].kind = "file"})
              /\ Range(entries) = {RelPath(n) : n \in ExpectedVisited \cap SymlinkNodes})
  /\ <>Terminated

\* C14 witness: a finished run in which directory a failed to open and was
\* not filtered out; a was counted with the root and the heavy directory,
\* and the symlinks beside a and below node_modules were enumerated.
C14_Witness ==
  /\ pc = "done"
  /\ unreadable = {"a"} /\ ~Excluded(opts, "a")
  /\ dir_count = 3
  /\ Len(entries) = 3

\* C15: a candidate that fails to resolve is never appended to the Match Set
\* nor announced, the run does not fail because of it, and when the
\* resolution phase is over every candidate has been through the closure
\* and every candidate that does match is in the Match Set.
C15_FailedResolutionIsNonMatch ==
  /\ \A i \in 1..Len(candidates) :
        ~canonicalize(candidates[i]).ok =>
           /\ candidates[i] \notin Range(matches_out)
           /\ candidates[i] \notin Range(out)
  /\ pc = "failed" => ~canonicalize(opts.target).ok
  /\ Finished =>
        /\ claimed = 1..total
        /\ pos # None => pos = Some(total)
        /\ \A i \in 1..total :
              is_match(candidates[i], target_meta, target, unix)
                 => candidates[i] \in Range(matches_out)

\* C15 witness: a finished run whose candidates held the dangling symlink
\* node_modules/link4 and whose Match Set holds another candidate.
C15_Witness ==
  /\ pc = "done"
  /\ RelPath("link4") \in Range(candidates)
  /\ ~canonicalize(RelPath("link4")).ok
  /\ Len(matches_out) >= 1
  /\ RelPath("link4") \notin Range(matches_out)

\* C16: once the target has been resolved the run never ends in a failure:
\* it is walking, resolving, reporting, or done with success.
C16_NoFailureAfterResolution ==
  target # None => pc \in {"walk", "resolve", "report", "done"}

\* The symlinks that lead to a directory.
SymlinksToDir ==
  {n \in SymlinkNodes :
     LET t == Follow(n, MaxSymlinks) IN t # "missing" /\ Tree[t].kind = "dir"}

\* The entries a thread is visiting.
InFlight == {w \in Walkers : wpc[w] = "visit"}

\* C17: the walk descends into directories only, never through a symlink: no
\* entry is visited twice, so the counters and the Entry Buffer never exceed
\* the directories, files and symlinks of the tree; a symlink that leads to
\* a directory is in the Entry Buffer at most once and, when the walk is
\* over and the symlink was admitted, exactly once; and the walk of every
\* run whose threads keep being scheduled comes to its end, cycle or not.
C17_SymlinksNotFollowed ==
  /\ [](/\ dir_count <= Cardinality({n \in NodeIds : Tree[n].kind = "dir"})
        /\ file_count <= Cardinality({n \in NodeIds : Tree[n].kind = "file"})
        /\ Len(entries) <= Cardinality(SymlinkNodes)
        /\ dir_count + file_count + Len(entries)
              + Cardinality(stack) + Cardinality(InFlight) <= Cardinality(NodeIds)
        /\ \A n \in SymlinksToDir :
              /\ Occurrences(entries, RelPath(n)) <= 1
              /\ (Finished /\ n \in ExpectedVisited)
                    => Occurrences(entries, RelPath(n)) = 1)
  /\ <>(pc \notin {"start", "walk"})

\* C17 witness: a finished run that entered node_modules, recorded the
\* symlink loop, which points back at the root, as a candidate, and counted
\* the three directories it walked.
C17_Witness ==
  /\ pc = "done"
  /\ "loop" \in SymlinksToDir
  /\ RelPath("loop") \in Range(candidates)
  /\ dir_count = 3

\* C18: from the moment the Entry Buffer is cloned, every path of the Match
\* Set, and of its sorted clone, is one of the candidates, the candidates
\* are the Entry Buffer, which no longer changes, and no path is in the
\* Match Set twice.
C18_MatchesAreCandidates ==
  pc \in {"resolve", "report", "done", "json_error"} =>
    /\ candidates = entries
    /\ \A i \in 1..Len(matches_out) :
          /\ matches_out[i] \in Range(candidates)
          /\ Occurrences(matches_out, matches_out[i]) = 1
    /\ \A i \in 1..Len(matches) :
          /\ matches[i] \in Range(candidates)
          /\ Occurrences(matches, matches[i]) = 1

\* C18 witness: the resolution phase is under way, two matches have been
\* appended and a thread is about to append a third.
C18_Witness ==
  /\ pc = "resolve"
  /\ Len(matches_out) = 2
  /\ \E r \in Resolvers : rpc[r] = "push"

\* C19: a thread that holds the Entry Buffer's mutex has just appended and
\* is about to drop the guard, and likewise for the Match Set's mutex: no
\* traversal thread holds a mutex while it is handed an entry or while a
\* directory is read, and no resolution thread holds one while it decides
\* is_match, updates the streamed count or prints.
C19_LocksHeldForAppendOnly ==
  /\ \A w \in Walkers : entries_lock = w <=> wpc[w] = "unlock"
  /\ \A r \in Resolvers : matches_lock = r <=> rpc[r] = "unlock"
  /\ \A r \in Resolvers :
        rpc[r] \in {"idle", "push", "count", "blank", "announce", "inc"}
           => matches_lock # r
  /\ entries_lock \in {0} \cup Walkers
  /\ matches_lock \in {0} \cup Resolvers

\* C19 witness: a streaming run in which one resolution thread updates the
\* streamed count while another holds the Match Set's mutex, its append
\* done.
C19_Witness ==
  /\ streaming_allowed
  /\ \E r \in Resolvers : rpc[r] = "count"
  /\ \E r \in Resolvers : matches_lock = r /\ rpc[r] = "unlock"

\* How many times path p was shown: as a streamed line that reached the
\* user or as a line of the final box.
TimesShown(p) ==
  Occurrences(out, p) + (IF box = None THEN 0 ELSE Occurrences(box[1], p))

\* C20: when a non-JSON run is done, every path of the sorted Match Set was
\* shown exactly once and every path shown is a match; with streaming
\* allowed and a match found the box is not printed, and with streaming
\* disabled nothing was streamed and the box holds the sorted matches.
C20_EachMatchShownOnce ==
  (pc = "done" /\ ~opts.json) =>
    /\ \A p \in Range(matches) : TimesShown(p) = 1
    /\ \A i \in 1..Len(out) : out[i] # <<>> => out[i] \in Range(matches)
    /\ (streaming_allowed /\ matches # <<>>) => box = None
    /\ ~streaming_allowed =>
          /\ out = <<>>
          /\ box = Some(IF matches = <<>> THEN <<NoMatchesLine>> ELSE matches)
====
